---- MODULE Spec2Model ----
(***************************************************************************)
(* A model of the VastAI-Automation scripts: the launch workflow of        *)
(* launch_gpu.py (main_async, get_instance_info_async) and the helpers of  *)
(* utils.py (run_vast_command, cleanup_instance).                          *)
(*                                                                         *)
(* Every external command is modelled by two steps, its call and its       *)
(* return; the return draws the command's result (exit code, stdout,       *)
(* stderr, or a failure to start the program) from a small set.            *)
(***************************************************************************)
EXTENDS Integers, Sequences, FiniteSets, TLC

(***************************************************************************)
(* Python values: None, str, int, bool.                                    *)
(***************************************************************************)
PyNone == [t |-> "none"]
PyS(s) == [t |-> "str", s |-> s]
PyI(n) == [t |-> "int", n |-> n]
PyB(b) == [t |-> "bool", b |-> b]

\* bool(v): None, "" and 0 are falsy
Truthy(v) ==
    CASE v.t = "none" -> FALSE
      [] v.t = "str"  -> v.s # ""
      [] v.t = "int"  -> v.n # 0
      [] v.t = "bool" -> v.b

\* str(v): the text Python prints for v
PyStr(v) ==
    CASE v.t = "none" -> "None"
      [] v.t = "str"  -> v.s
      [] v.t = "int"  -> ToString(v.n)
      [] v.t = "bool" -> IF v.b THEN "True" ELSE "False"

\* v == s for a str literal s
PyEqStr(v, s) == v.t = "str" /\ v.s = s

(***************************************************************************)
(* Text: str.strip(), the `in` operator, str.lower().                      *)
(***************************************************************************)
IsSpace(c) == c \in {" ", "\n", "\t", "\r"}

RECURSIVE LStrip(_)
LStrip(s) ==
    IF Len(s) > 0 /\ IsSpace(SubSeq(s, 1, 1))
    THEN LStrip(SubSeq(s, 2, Len(s)))
    ELSE s

RECURSIVE RStrip(_)
RStrip(s) ==
    IF Len(s) > 0 /\ IsSpace(SubSeq(s, Len(s), Len(s)))
    THEN RStrip(SubSeq(s, 1, Len(s) - 1))
    ELSE s

Strip(s) == RStrip(LStrip(s))

\* sub in s
Contains(s, sub) ==
    \E i \in 1..(Len(s) - Len(sub) + 1) : SubSeq(s, i, i + Len(sub) - 1) = sub

LowerChar(c) ==
    CASE c = "Y" -> "y"
      [] c = "N" -> "n"
      [] c = "S" -> "s"
      [] c = "E" -> "e"
      [] OTHER   -> c

RECURSIVE Lower(_)
Lower(s) ==
    IF Len(s) = 0 THEN ""
    ELSE LowerChar(SubSeq(s, 1, 1)) \o Lower(SubSeq(s, 2, Len(s)))

(***************************************************************************)
(* re.search(r"ssh://([^@]+)@([^:]+):([0-9]+)", ssh_uri)                   *)
(***************************************************************************)
Digits == {"0", "1", "2", "3", "4", "5", "6", "7", "8", "9"}

Min(S) == CHOOSE m \in S : \A n \in S : m <= n

\* the first position >= from of character ch in s, or 0
FirstIdx(s, ch, from) ==
    LET I == {i \in from..Len(s) : SubSeq(s, i, i) = ch}
    IN  IF I = {} THEN 0 ELSE Min(I)

\* the end of the longest run of digits of s that starts at from (from - 1: none)
DigitsEnd(s, from) ==
    LET Stop == {i \in from..Len(s) : SubSeq(s, i, i) \notin Digits}
    IN  IF Stop = {} THEN Len(s) ELSE Min(Stop) - 1

NoMatch == [ok |-> FALSE, user |-> "", host |-> "", port |-> ""]

\* the match of the pattern with "ssh://" at position p. [^@]+ ends at the
\* first '@' and [^:]+ at the first ':' that follows it: neither class can
\* step over its own terminator, so backtracking finds no other split.
MatchAt(s, p) ==
    LET u0 == p + 6
        a  == FirstIdx(s, "@", u0)
        c  == IF a = 0 THEN 0 ELSE FirstIdx(s, ":", a + 1)
        e  == IF c = 0 THEN 0 ELSE DigitsEnd(s, c + 1)
    IN  IF /\ p + 5 <= Len(s)
           /\ SubSeq(s, p, p + 5) = "ssh://"
           /\ a > u0
           /\ c > a + 1
           /\ e >= c + 1
        THEN [ok |-> TRUE, user |-> SubSeq(s, u0, a - 1),
              host |-> SubSeq(s, a + 1, c - 1), port |-> SubSeq(s, c + 1, e)]
        ELSE NoMatch

\* faulty variant: re.match, which tries the start of the string only
ReMatchSshUri(s) == MatchAt(s, 1)

\* re.search: the match at the leftmost position that has one
ReSearchSshUri(s) ==
    LET P == {p \in 1..Len(s) : MatchAt(s, p).ok}
    IN  IF P = {} THEN NoMatch ELSE MatchAt(s, Min(P))

(***************************************************************************)
(* External commands.  A result is what subprocess.run gives back: exit    *)
(* code, stdout, stderr; started = FALSE stands for subprocess.run raising *)
(* OSError because the program could not be started.                       *)
(***************************************************************************)
Res(rc, out, err) == [started |-> TRUE, rc |-> rc, stdout |-> out, stderr |-> err]
OSErr == [started |-> FALSE, rc |-> 0, stdout |-> "", stderr |-> ""]
NoResult == [started |-> FALSE, rc |-> -1, stdout |-> "", stderr |-> ""]

\* utils.run_command: the same for a command that is not vastai
run_command(result, check) ==
    IF ~result.started
    THEN [raised |-> TRUE, exc |-> "OSError", out |-> ""]
    ELSE IF check /\ result.rc # 0
    THEN [raised |-> TRUE, exc |-> "CalledProcessError", out |-> ""]
    ELSE [raised |-> FALSE, exc |-> "", out |-> Strip(result.stdout)]

\* utils.run_vast_command with capture_output=True: raises when the program
\* cannot be started or, with check, exits non-zero; else the stripped stdout
run_vast_command(result, check) ==
    IF ~result.started
    THEN [raised |-> TRUE, exc |-> "OSError", out |-> ""]
    ELSE IF check /\ result.rc # 0
    THEN [raised |-> TRUE, exc |-> "CalledProcessError", out |-> ""]
    ELSE [raised |-> FALSE, exc |-> "", out |-> Strip(result.stdout)]

(***************************************************************************)
(* JSON documents: json.loads on the outputs the model draws from.         *)
(***************************************************************************)
JInvalid == [t |-> "invalid"]
JList(items) == [t |-> "list", items |-> items]
JDict(f) == [t |-> "dict", f |-> f]

\* dict.get(key): None when the key is absent
DictGet(d, key) == IF key \in DOMAIN d.f THEN d.f[key] ELSE PyNone

Offer(id) == JDict([id |-> id])

SearchTexts ==
    { "",
      "[]\n",
      "{\"error\": \"bad query\"}\n",
      "[{\"id\": 11}]\n",
      "[{\"id\": 11}, {\"id\": 22}]\n",
      "[{\"id\": 11}, {\"id\": 22}, {\"id\": 33}]\n",
      "[{\"gpu_name\": \"RTX_3060\"}]\n",
      "[{\"id\": 11, \"dph_total\": \"n/a\"}]\n" }

CreateTexts ==
    { "",
      "failed with error 400\n",
      "[]\n",
      "{\"success\": true, \"new_contract\": 456}\n",
      "{\"success\": true, \"new_contract\": \"789\"}\n",
      "{\"success\": true, \"new_contract\": \"null\"}\n",
      "{\"success\": true, \"new_contract\": \"\"}\n",
      "{\"success\": false, \"new_contract\": null}\n",
      "{\"success\": false}\n" }

ShowTexts ==
    { "",
      "{\"public_ipaddr\": \"1.2.3.4\", \"ports\": {\"22/tcp\": [{\"HostPort\": \"40022\"}]}}\n",
      "{\"public_ipaddr\": null, \"ports\": {\"22/tcp\": [{\"HostPort\": \"40022\"}]}}\n",
      "{\"public_ipaddr\": \"\", \"ports\": {\"22/tcp\": [{\"HostPort\": \"40022\"}]}}\n",
      "{\"public_ipaddr\": \"1.2.3.4\", \"ports\": {\"22/tcp\": [{\"HostPort\": \"\"}]}}\n",
      "{\"public_ipaddr\": \"1.2.3.4\", \"ports\": {\"22/tcp\": []}}\n",
      "{\"public_ipaddr\": \"1.2.3.4\", \"ports\": {}}\n",
      "{\"public_ipaddr\": \"1.2.3.4\"}\n" }

HostPorts(p) == JList(<<JDict([HostPort |-> PyS(p)])>>)

\* connect_mosh.py, line 23: the default of --port-udp
PortUdp == 60001

\* line 49: f"{args.port_udp}/udp"
UdpKey == ToString(PortUdp) \o "/udp"

\* what `show instance --raw` may print when the connector asks
ConnectTexts ==
    { "",
      "{}\n",
      "[{\"id\": 11}]\n",
      "{\"public_ipaddr\": \"1.2.3.4\"}\n",
      "{\"public_ipaddr\": \"1.2.3.4\", \"ports\": {}}\n",
      "{\"public_ipaddr\": \"1.2.3.4\", \"ports\": {\"22/tcp\": [{\"HostPort\": \"40022\"}]}}\n",
      "{\"public_ipaddr\": \"1.2.3.4\", \"ports\": {\"60001/udp\": [{\"HostPort\": \"40001\"}]}}\n",
      "{\"public_ipaddr\": \"1.2.3.4\", \"ports\": {\"22/tcp\": [{\"HostPort\": \"40022\"}], \"60001/udp\": [{\"HostPort\": \"40001\"}]}}\n",
      "{\"public_ipaddr\": \"1.2.3.4\", \"ports\": {\"22/tcp\": [{\"HostPort\": \"40022\"}], \"60001/udp\": [{\"HostPort\": \"\"}]}}\n",
      "{\"public_ipaddr\": \"1.2.3.4\", \"ports\": {\"22/tcp\": [{\"HostPort\": \"\"}], \"60001/udp\": [{\"HostPort\": \"40001\"}]}}\n",
      "{\"public_ipaddr\": null, \"ports\": {\"22/tcp\": [{\"HostPort\": \"40022\"}], \"60001/udp\": [{\"HostPort\": \"40001\"}]}}\n" }

\* what the ssh command that starts mosh-server may print
SshTexts ==
    { "",
      "\n\n",
      "MOSH CONNECT 60001 kEy0123\n",
      "\n\nMOSH CONNECT 60001 kEy0123\n\n[mosh-server detached, pid = 77]\n" }

JsonLoads(s) ==
    CASE s = "[]" -> JList(<<>>)
      [] s = "{\"error\": \"bad query\"}" -> JDict([error |-> PyS("bad query")])
      [] s = "[{\"id\": 11}]" -> JList(<<Offer(PyI(11))>>)
      [] s = "[{\"id\": 11}, {\"id\": 22}]" -> JList(<<Offer(PyI(11)), Offer(PyI(22))>>)
      [] s = "[{\"id\": 11}, {\"id\": 22}, {\"id\": 33}]"
           -> JList(<<Offer(PyI(11)), Offer(PyI(22)), Offer(PyI(33))>>)
      [] s = "[{\"gpu_name\": \"RTX_3060\"}]" -> JList(<<JDict([gpu_name |-> PyS("RTX_3060")])>>)
      [] s = "[{\"id\": 11, \"dph_total\": \"n/a\"}]"
           -> JList(<<JDict([id |-> PyI(11), dph_total |-> PyS("n/a")])>>)
      [] s = "{\"success\": true, \"new_contract\": 456}" -> JDict([new_contract |-> PyI(456)])
      [] s = "{\"success\": true, \"new_contract\": \"789\"}" -> JDict([new_contract |-> PyS("789")])
      [] s = "{\"success\": true, \"new_contract\": \"null\"}" -> JDict([new_contract |-> PyS("null")])
      [] s = "{\"success\": true, \"new_contract\": \"\"}" -> JDict([new_contract |-> PyS("")])
      [] s = "{\"success\": false, \"new_contract\": null}" -> JDict([new_contract |-> PyNone])
      [] s = "{\"success\": false}" -> JDict([success |-> PyB(FALSE)])
      [] s = "{\"public_ipaddr\": \"1.2.3.4\", \"ports\": {\"22/tcp\": [{\"HostPort\": \"40022\"}]}}"
           -> JDict([public_ipaddr |-> PyS("1.2.3.4"), ports |-> JDict("22/tcp" :> HostPorts("40022"))])
      [] s = "{\"public_ipaddr\": null, \"ports\": {\"22/tcp\": [{\"HostPort\": \"40022\"}]}}"
           -> JDict([public_ipaddr |-> PyNone, ports |-> JDict("22/tcp" :> HostPorts("40022"))])
      [] s = "{\"public_ipaddr\": \"\", \"ports\": {\"22/tcp\": [{\"HostPort\": \"40022\"}]}}"
           -> JDict([public_ipaddr |-> PyS(""), ports |-> JDict("22/tcp" :> HostPorts("40022"))])
      [] s = "{\"public_ipaddr\": \"1.2.3.4\", \"ports\": {\"22/tcp\": [{\"HostPort\": \"\"}]}}"
           -> JDict([public_ipaddr |-> PyS("1.2.3.4"), ports |-> JDict("22/tcp" :> HostPorts(""))])
      [] s = "{\"public_ipaddr\": \"1.2.3.4\", \"ports\": {\"22/tcp\": []}}"
           -> JDict([public_ipaddr |-> PyS("1.2.3.4"), ports |-> JDict("22/tcp" :> JList(<<>>))])
      [] s = "{\"public_ipaddr\": \"1.2.3.4\", \"ports\": {}}"
           -> JDict([public_ipaddr |-> PyS("1.2.3.4"), ports |-> JDict(<<>>)])
      [] s = "{\"public_ipaddr\": \"1.2.3.4\"}" -> JDict([public_ipaddr |-> PyS("1.2.3.4")])
      [] s = "{}" -> JDict(<<>>)
      [] s = "{\"public_ipaddr\": \"1.2.3.4\", \"ports\": {\"60001/udp\": [{\"HostPort\": \"40001\"}]}}"
           -> JDict([public_ipaddr |-> PyS("1.2.3.4"), ports |-> JDict("60001/udp" :> HostPorts("40001"))])
      [] s = "{\"public_ipaddr\": \"1.2.3.4\", \"ports\": {\"22/tcp\": [{\"HostPort\": \"40022\"}], \"60001/udp\": [{\"HostPort\": \"40001\"}]}}"
           -> JDict([public_ipaddr |-> PyS("1.2.3.4"),
                     ports |-> JDict(("22/tcp" :> HostPorts("40022")) @@ ("60001/udp" :> HostPorts("40001")))])
      [] s = "{\"public_ipaddr\": \"1.2.3.4\", \"ports\": {\"22/tcp\": [{\"HostPort\": \"40022\"}], \"60001/udp\": [{\"HostPort\": \"\"}]}}"
           -> JDict([public_ipaddr |-> PyS("1.2.3.4"),
                     ports |-> JDict(("22/tcp" :> HostPorts("40022")) @@ ("60001/udp" :> HostPorts("")))])
      [] s = "{\"public_ipaddr\": \"1.2.3.4\", \"ports\": {\"22/tcp\": [{\"HostPort\": \"\"}], \"60001/udp\": [{\"HostPort\": \"40001\"}]}}"
           -> JDict([public_ipaddr |-> PyS("1.2.3.4"),
                     ports |-> JDict(("22/tcp" :> HostPorts("")) @@ ("60001/udp" :> HostPorts("40001")))])
      [] s = "{\"public_ipaddr\": null, \"ports\": {\"22/tcp\": [{\"HostPort\": \"40022\"}], \"60001/udp\": [{\"HostPort\": \"40001\"}]}}"
           -> JDict([public_ipaddr |-> PyNone,
                     ports |-> JDict(("22/tcp" :> HostPorts("40022")) @@ ("60001/udp" :> HostPorts("40001")))])
      [] OTHER -> JInvalid

\* bool(doc) of a parsed document: an empty list or dict is falsy
JTruthy(doc) ==
    CASE doc.t = "list" -> Len(doc.items) > 0
      [] doc.t = "dict" -> DOMAIN doc.f # {}
      [] OTHER -> Truthy(doc)

(***************************************************************************)
(* The results the commands may give.                                      *)
(***************************************************************************)
SearchResults ==
    {OSErr, Res(1, "", "error: 401\n")} \cup {Res(0, t, "") : t \in SearchTexts}

CreateResults ==
    {OSErr, Res(1, "", "error: 400\n")} \cup {Res(0, t, "") : t \in CreateTexts}

SshUrlResults ==
    { OSErr,
      Res(1, "", "instance not ready\n"),
      Res(0, "", ""),
      Res(0, " \n", ""),
      Res(0, "ssh://root@203.0.113.5:44123\n", ""),
      Res(0, "xssh://a@b:1z\n", ""),
      Res(0, "ssh://bad-uri\n", "") }

AttachResults ==
    {OSErr, Res(0, "", ""), Res(1, "", "invalid key\n")}

ShowResults ==
    {OSErr, Res(1, "", "error: 404\n")} \cup {Res(0, t, "") : t \in ShowTexts}

ConnectResults ==
    {OSErr, Res(1, "", "error: 404\n")} \cup {Res(0, t, "") : t \in ConnectTexts}

SshResults ==
    {OSErr, Res(255, "", "Permission denied (publickey).\n")}
        \cup {Res(0, t, "") : t \in SshTexts}

MoshResults == {OSErr, Res(0, "", ""), Res(1, "", "")}

\* the --instance-id the connector is started with
ConnectIds == {"456"}

DestroyResults ==
    { OSErr,
      Res(0, "destroying instance\n", ""),
      Res(1, "", "instance 456 not found\n"),
      Res(1, "", "404: Not Found\n"),
      Res(1, "", "connection refused\n"),
      Res(1, "", "") }

\* what the operator may type at the prompt
InputLines == {"y", "n", "Y", "N", "s", "S", "", "yes"}

\* the ids cleanup_instance is called with when it is called on its own
CleanupArgs == {PyNone, PyS(""), PyS("null"), PyS("None"), PyS("456")}

(***************************************************************************)
(* Constants of launch_gpu.py and the bounds of the model.                 *)
(***************************************************************************)
MAX_ATTEMPTS == 6
SLEEP_SECONDS == 15
PollInterval == 15

\* the largest --timeout tried, and the longest a show-instance command runs
MaxTimeout == 35
MaxShowSecs == 7

Timeouts == {-1, 0, 20, MaxTimeout}

(***************************************************************************)
(* State.                                                                  *)
(***************************************************************************)
VARIABLES
    entry,          \* the entry point that runs: "launch", or "cleanup" (cleanup_instance alone)
    pc,             \* where the run stands
    inflight,       \* the external command that has been started and has not returned
    requests,       \* the external commands started so far: <<[cmd, arg], ...>>
    offer_output,   \* what the search command printed (None until it returns)
    offer_details,  \* the parsed search result
    index,          \* the position in offer_details of the offer presented
    offer_id,
    user_choice,    \* the last answer read, lower-cased
    create_data,    \* the parsed output of the create command
    instance_id,
    attempt,        \* the loop variable of the connection-URI poll
    ssh_uri,
    sleeps,         \* asyncio.sleep(SLEEP_SECONDS) calls of the connection-URI poll
    slept,          \* the seconds those calls waited
    attach,         \* what became of the key attachment
    conn,           \* the match of the URI pattern
    timeout,        \* args.timeout
    elapsed,        \* time.time() - start_time
    show_output,    \* what the last show-instance command printed
    net,            \* (public_ip, ssh_port) returned by get_instance_info_async
    exc,            \* the exception that ended the provisioning block ("" none)
    exitStatus,     \* the process's exit status (-1: still running)
    cleanupArg,     \* cleanup_instance's parameter
    destroyRes,     \* the result of the destroy command
    report,         \* what cleanup_instance printed
    public_ip,      \* connect_mosh.main: the locals of the same names
    mosh_ext_port,
    ssh_ext_port,
    ssh_result,
    mosh_key

vars == <<entry, pc, inflight, requests, offer_output, offer_details, index, offer_id,
          user_choice, create_data, instance_id, attempt, ssh_uri, sleeps, slept, attach,
          conn,
          timeout, elapsed, show_output, net, exc, exitStatus, cleanupArg, destroyRes, report,
          public_ip, mosh_ext_port, ssh_ext_port, ssh_result, mosh_key>>

searchVars  == <<offer_output, offer_details, index, offer_id>>
createVars  == <<create_data, instance_id>>
uriVars     == <<attempt, ssh_uri, sleeps, slept>>
readyVars   == <<elapsed, show_output, net>>
cleanupVars == <<cleanupArg, destroyRes, report>>
lookupVars  == <<public_ip, mosh_ext_port, ssh_ext_port>>
moshVars    == <<ssh_result, mosh_key>>

\* a local name that no assignment has bound yet
Unbound == [t |-> "unbound"]

Request(cmd, arg) == [cmd |-> cmd, arg |-> arg]

\* the requests of one command
Issued(cmd) == {i \in 1..Len(requests) : requests[i].cmd = cmd}

Init ==
    /\ entry \in {"launch", "cleanup", "connect"}
    /\ pc = CASE entry = "launch" -> "search_call"
              [] entry = "cleanup" -> "cleanup_enter"
              [] entry = "connect" -> "lookup_call"
    /\ inflight = "none"
    /\ requests = <<>>
    /\ offer_output = PyNone
    /\ offer_details = JInvalid
    /\ index = 0
    /\ offer_id = PyNone
    /\ user_choice = PyNone
    /\ create_data = JInvalid
    /\ IF entry = "connect" THEN instance_id \in {PyS(i) : i \in ConnectIds}
       ELSE instance_id = PyNone
    /\ attempt = 0
    /\ ssh_uri = PyNone
    /\ sleeps = 0
    /\ slept = 0
    /\ attach = "none"
    /\ conn = NoMatch
    /\ IF entry = "launch" THEN timeout \in Timeouts ELSE timeout = 0
    /\ elapsed = 0
    /\ show_output = PyNone
    /\ net = <<PyNone, PyNone>>
    /\ exc = ""
    /\ exitStatus = -1
    /\ IF entry = "cleanup" THEN cleanupArg \in CleanupArgs ELSE cleanupArg = PyNone
    /\ destroyRes = NoResult
    /\ report = "none"
    /\ public_ip = Unbound
    /\ mosh_ext_port = Unbound
    /\ ssh_ext_port = Unbound
    /\ ssh_result = Unbound
    /\ mosh_key = Unbound

(***************************************************************************)
(* The ends of a run.                                                      *)
(***************************************************************************)
\* the process ends with this status
Exit(status) ==
    /\ pc' = "exited"
    /\ exitStatus' = status
    /\ inflight' = "none"

\* an exception raised inside the provisioning try block: `except Exception`
Raise(e) ==
    /\ pc' = "handler"
    /\ exc' = e
    /\ inflight' = "none"
    /\ exitStatus' = exitStatus

(***************************************************************************)
(* main_async, step 3: find the best offer.                                *)
(***************************************************************************)
\* float(x) raises for None and for text that is no number
FloatRaises(v) ==
    \/ v.t = "none"
    \/ v.t = "str" /\ (v.s = "" \/ \E i \in 1..Len(v.s) : SubSeq(v.s, i, i) \notin Digits \cup {"."})

\* the offer presented: offer_details[0]
FirstOffer == 0

\* faulty variant: a first record without an id is presented to the operator
SearchFailureIdUnchecked(result) ==
    LET r   == run_vast_command(result, TRUE)
        doc == JsonLoads(r.out)
    IN  IF r.raised THEN r.exc
        ELSE IF doc.t = "invalid" THEN "JSONDecodeError"
        ELSE IF ~JTruthy(doc) THEN "NoOffer"
        ELSE IF doc.t # "list" THEN "KeyError"
        ELSE ""

\* lines 176-227: "" when an offer is found, else why the search ends the run
SearchFailure(result) ==
    LET r     == run_vast_command(result, TRUE)
        doc   == JsonLoads(r.out)
        offer == doc.items[FirstOffer + 1]
    IN  IF r.raised THEN r.exc
        ELSE IF doc.t = "invalid" THEN "JSONDecodeError"
        ELSE IF ~JTruthy(doc) THEN "NoOffer"
        ELSE IF doc.t # "list" THEN "KeyError"
        ELSE IF offer.t # "dict" THEN "AttributeError"
        ELSE IF ~Truthy(DictGet(offer, "id")) THEN "NoOfferId"
        ELSE IF "dph_total" \in DOMAIN offer.f /\ FloatRaises(offer.f["dph_total"])
        THEN "ValueError"
        ELSE ""

SearchCall ==
    /\ entry = "launch"
    /\ pc = "search_call"
    /\ pc' = "search_wait"
    /\ inflight' = "search"
    /\ requests' = Append(requests, Request("search", ""))
    /\ UNCHANGED <<entry, lookupVars, moshVars, searchVars, user_choice, createVars, uriVars, attach,
                   conn, timeout, readyVars, exc, exitStatus, cleanupVars>>

SearchReturn ==
    /\ pc = "search_wait"
    /\ \E result \in SearchResults :
         LET why == SearchFailure(result)
             r   == run_vast_command(result, TRUE)
             doc == JsonLoads(r.out)
         IN  /\ offer_output' = IF r.raised THEN PyNone ELSE PyS(r.out)
             /\ IF why # ""
                THEN /\ Exit(1)
                     /\ exc' = why
                     /\ UNCHANGED <<offer_details, index, offer_id>>
                ELSE /\ pc' = "prompt"
                     /\ inflight' = "none"
                     /\ offer_details' = doc
                     /\ index' = FirstOffer
                     /\ offer_id' = DictGet(doc.items[FirstOffer + 1], "id")
                     /\ UNCHANGED <<exc, exitStatus>>
    /\ UNCHANGED <<entry, lookupVars, moshVars, requests, user_choice, createVars, uriVars, attach,
                   conn, timeout, readyVars, cleanupVars>>

(***************************************************************************)
(* main_async, step 4: the confirmation prompt.                            *)
(***************************************************************************)
\* line 231: the answers that end the prompt loop
ValidChoice(c) == c \in {"y", "n"}

\* faulty variant: the answer is compared before it is lower-cased
CancelsUpper(c) == c = "N"

\* line 236: the answer that cancels
Cancels(c) == c = "n"

\* input(...).lower(), and what the loop and the test after it do with it
Confirm ==
    /\ pc = "prompt"
    /\ \E line \in InputLines :
         LET c == Lower(line)
         IN  /\ user_choice' = PyS(c)
             /\ IF ~ValidChoice(c)
                THEN UNCHANGED <<pc, inflight, exitStatus>>
                ELSE IF Cancels(c)
                THEN Exit(0)
                ELSE /\ pc' = "create_call"
                     /\ UNCHANGED <<inflight, exitStatus>>
    /\ UNCHANGED <<entry, lookupVars, moshVars, requests, searchVars, createVars, uriVars, attach,
                   conn, timeout, readyVars, exc, cleanupVars>>

\* input() raises EOFError at the end of the input: outside any try block
ConfirmEOF ==
    /\ pc = "prompt"
    /\ Exit(1)
    /\ exc' = "EOFError"
    /\ UNCHANGED <<entry, lookupVars, moshVars, requests, searchVars, user_choice, createVars, uriVars,
                   attach, conn, timeout, readyVars, cleanupVars>>

(***************************************************************************)
(* main_async, step 5: create the instance.                                *)
(***************************************************************************)
\* line 276: instance_id = str(create_data.get("new_contract"))
InstanceIdOf(data) == PyS(PyStr(DictGet(data, "new_contract")))

\* line 278: not instance_id or instance_id == "null"
IdNotReturned(id) == ~Truthy(id) \/ PyEqStr(id, "null")

\* faulty variant: the last offer of the list is created
CreateArgLast == PyStr(DictGet(offer_details.items[Len(offer_details.items)], "id"))

\* line 256: the offer the create command names, str(offer_id)
CreateArg == PyStr(offer_id)

CreateCall ==
    /\ pc = "create_call"
    /\ pc' = "create_wait"
    /\ inflight' = "create"
    /\ requests' = Append(requests, Request("create", CreateArg))
    /\ UNCHANGED <<entry, lookupVars, moshVars, searchVars, user_choice, createVars, uriVars, attach,
                   conn, timeout, readyVars, exc, exitStatus, cleanupVars>>

CreateReturn ==
    /\ pc = "create_wait"
    /\ \E result \in CreateResults :
         LET r   == run_vast_command(result, TRUE)
             doc == JsonLoads(r.out)
         IN  IF r.raised
             THEN Raise(r.exc) /\ UNCHANGED <<createVars, attempt>>
             ELSE IF doc.t = "invalid"
             THEN Raise("JSONDecodeError") /\ UNCHANGED <<createVars, attempt>>
             ELSE IF doc.t # "dict"
             THEN /\ Raise("AttributeError")
                  /\ create_data' = doc
                  /\ UNCHANGED <<instance_id, attempt>>
             ELSE /\ create_data' = doc
                  /\ instance_id' = InstanceIdOf(doc)
                  /\ IF IdNotReturned(InstanceIdOf(doc))
                     THEN Raise("InstanceIdNotReturned") /\ UNCHANGED attempt
                     ELSE /\ pc' = "ssh_url_call"
                          /\ inflight' = "none"
                          /\ attempt' = 1
                          /\ UNCHANGED <<exc, exitStatus>>
    /\ UNCHANGED <<entry, lookupVars, moshVars, requests, searchVars, user_choice, ssh_uri, sleeps,
                   slept,                   attach, conn, timeout, readyVars, cleanupVars>>

(***************************************************************************)
(* main_async, step 6: poll for the connection URI.                        *)
(***************************************************************************)
\* lines 294-301: the URI an attempt yields, None when it raised or was empty
UriOf(result) ==
    LET r == run_vast_command(result, TRUE)
    IN  IF ~r.raised /\ r.out # "" THEN PyS(Strip(r.out)) ELSE PyNone

\* faulty variant: one attempt too many
RetryAfterOffByOne(n) == n <= MAX_ATTEMPTS

\* line 305: whether a delay follows a failed attempt
RetryAfter(n) == n < MAX_ATTEMPTS

SshUrlCall ==
    /\ pc = "ssh_url_call"
    /\ pc' = "ssh_url_wait"
    /\ inflight' = "ssh-url"
    /\ requests' = Append(requests, Request("ssh-url", PyStr(instance_id)))
    /\ UNCHANGED <<entry, lookupVars, moshVars, searchVars, user_choice, createVars, uriVars, attach,
                   conn, timeout, readyVars, exc, exitStatus, cleanupVars>>

\* one pass of the loop body: break with the URI, or sleep and go on, or,
\* after the last attempt, leave the loop with ssh_uri None (line 312 raises)
SshUrlReturn ==
    /\ pc = "ssh_url_wait"
    /\ \E result \in SshUrlResults :
         LET uri == UriOf(result)
         IN  /\ ssh_uri' = uri
             /\ IF Truthy(uri)
                THEN /\ pc' = "key_check"
                     /\ inflight' = "none"
                     /\ UNCHANGED <<exc, exitStatus>>
                ELSE IF RetryAfter(attempt)
                THEN /\ pc' = "uri_sleep"
                     /\ inflight' = "none"
                     /\ UNCHANGED <<exc, exitStatus>>
                ELSE Raise("UriTimeout")
    /\ UNCHANGED <<entry, lookupVars, moshVars, requests, searchVars, user_choice, createVars, attempt,
                   sleeps, slept, attach, conn, timeout, readyVars, cleanupVars>>

\* faulty variant: the next attempt follows at once
UriSleepSkipped ==
    /\ pc = "uri_sleep"
    /\ pc' = "ssh_url_call"
    /\ attempt' = attempt + 1
    /\ UNCHANGED <<entry, lookupVars, moshVars, inflight, requests, searchVars,
                   user_choice, createVars, ssh_uri, sleeps, slept, attach, conn,
                   timeout, readyVars, exc, exitStatus, cleanupVars>>

\* await asyncio.sleep(SLEEP_SECONDS), then the next attempt
UriSleep ==
    /\ pc = "uri_sleep"
    /\ pc' = "ssh_url_call"
    /\ sleeps' = sleeps + 1
    /\ slept' = slept + SLEEP_SECONDS
    /\ attempt' = attempt + 1
    /\ UNCHANGED <<entry, lookupVars, moshVars, inflight, requests, searchVars, user_choice, createVars,
                   ssh_uri, attach, conn, timeout, readyVars, exc, exitStatus,
                   cleanupVars>>

(***************************************************************************)
(* main_async, step 7: attach the SSH public key.                          *)
(***************************************************************************)
\* os.path.exists(args.ssh_key_path) is false
KeyFileAbsent ==
    /\ pc = "key_check"
    /\ pc' = "parse"
    /\ attach' = "absent"
    /\ UNCHANGED <<entry, lookupVars, moshVars, inflight, requests, searchVars, user_choice, createVars,
                   uriVars, conn, timeout, readyVars, exc, exitStatus, cleanupVars>>

\* the file exists and open() or read() raises (no permission, a directory,
\* bytes that do not decode)
KeyFileUnreadable ==
    /\ pc = "key_check"
    /\ attach' = "unreadable"
    /\ Raise("KeyFileError")
    /\ UNCHANGED <<entry, lookupVars, moshVars, requests, searchVars, user_choice, createVars, uriVars,
                   conn, timeout, readyVars, cleanupVars>>

\* faulty variant: the attach command is started and not awaited
AttachCallNotAwaited ==
    /\ pc = "key_check"
    /\ pc' = "parse"
    /\ inflight' = "attach"
    /\ attach' = "ok"
    /\ requests' = Append(requests, Request("attach", PyStr(instance_id)))
    /\ UNCHANGED <<entry, lookupVars, moshVars, searchVars, user_choice, createVars, uriVars, conn,
                   timeout, readyVars, exc, exitStatus, cleanupVars>>

AttachCall ==
    /\ pc = "key_check"
    /\ pc' = "attach_wait"
    /\ inflight' = "attach"
    /\ attach' = "called"
    /\ requests' = Append(requests, Request("attach", PyStr(instance_id)))
    /\ UNCHANGED <<entry, lookupVars, moshVars, searchVars, user_choice, createVars, uriVars, conn,
                   timeout, readyVars, exc, exitStatus, cleanupVars>>

\* lines 325-339: subprocess.run without check; only its failure to start raises
AttachOutcome(result) ==
    IF ~result.started THEN "oserror"
    ELSE IF result.rc = 0 THEN "ok"
    ELSE "warning"

AttachReturn ==
    /\ pc = "attach_wait"
    /\ \E result \in AttachResults :
         /\ attach' = AttachOutcome(result)
         /\ IF AttachOutcome(result) = "oserror"
            THEN Raise("AttachOSError")
            ELSE /\ pc' = "parse"
                 /\ inflight' = "none"
                 /\ UNCHANGED <<exc, exitStatus>>
    /\ UNCHANGED <<entry, lookupVars, moshVars, requests, searchVars, user_choice, createVars, uriVars,
                   conn, timeout, readyVars, cleanupVars>>

(***************************************************************************)
(* main_async, step 8: parse the URI, then wait for the network details.   *)
(***************************************************************************)
\* faulty variant: a URI that does not match is passed on to the readiness poll
ParseUriUnchecked ==
    /\ pc = "parse"
    /\ conn' = ReSearchSshUri(ssh_uri.s)
    /\ pc' = "ready_check"
    /\ elapsed' = 0
    /\ UNCHANGED <<entry, lookupVars, moshVars, inflight, requests, searchVars, user_choice, createVars,
                   uriVars, attach, timeout, show_output, net, exc, exitStatus,
                   cleanupVars>>

ParseUri ==
    /\ pc = "parse"
    /\ LET m == ReSearchSshUri(ssh_uri.s)
       IN  IF m.ok
           THEN /\ conn' = m
                /\ pc' = "ready_check"
                /\ elapsed' = 0
                /\ UNCHANGED <<inflight, exc, exitStatus>>
           ELSE /\ Raise("UriParse")
                /\ UNCHANGED <<conn, elapsed>>
    /\ UNCHANGED <<entry, lookupVars, moshVars, requests, searchVars, user_choice, createVars, uriVars,
                   attach, timeout, show_output, net, cleanupVars>>

\* faulty variant: one more attempt when the elapsed time equals the timeout
WithinTimeoutInclusive(t, limit) == t <= limit

\* line 43: the loop condition of get_instance_info_async
WithinTimeout(t, limit) == t < limit

\* lines 50-57 of get_instance_info_async: the pair read from a show-instance
\* result; raised when the command, the parse or a lookup raises
InstanceInfo(result) ==
    LET r     == run_vast_command(result, TRUE)
        doc   == JsonLoads(r.out)
        ports == DictGet(doc, "ports")
        tcp   == DictGet(ports, "22/tcp")
        none  == [raised |-> TRUE, public_ip |-> PyNone, ssh_port |-> PyNone]
    IN  IF r.raised \/ doc.t # "dict" THEN none
        ELSE IF ports.t # "dict" THEN none
        ELSE IF tcp.t # "list" THEN none
        ELSE IF Len(tcp.items) = 0 THEN none
        ELSE [raised |-> FALSE,
              public_ip |-> DictGet(doc, "public_ipaddr"),
              ssh_port |-> DictGet(tcp.items[1], "HostPort")]

\* faulty variant: the address alone ends the poll
InfoCompleteAddressOnly(info) == ~info.raised /\ Truthy(info.public_ip)

\* line 57: if public_ip and ssh_port
InfoComplete(info) == ~info.raised /\ Truthy(info.public_ip) /\ Truthy(info.ssh_port)

ShowCall ==
    /\ pc = "ready_check"
    /\ WithinTimeout(elapsed, timeout)
    /\ pc' = "show_wait"
    /\ inflight' = "show"
    /\ requests' = Append(requests, Request("show", PyStr(instance_id)))
    /\ UNCHANGED <<entry, lookupVars, moshVars, searchVars, user_choice, createVars, uriVars, attach,
                   conn, timeout, readyVars, exc, exitStatus, cleanupVars>>

\* line 71: raise TimeoutError
ReadyTimeout ==
    /\ pc = "ready_check"
    /\ ~WithinTimeout(elapsed, timeout)
    /\ Raise("TimeoutError")
    /\ UNCHANGED <<entry, lookupVars, moshVars, requests, searchVars, user_choice, createVars, uriVars,
                   attach, conn, timeout, readyVars, cleanupVars>>

\* the command took d seconds
ShowReturn ==
    /\ pc = "show_wait"
    /\ \E result \in ShowResults, d \in {0, MaxShowSecs} :
         LET info == InstanceInfo(result)
             r    == run_vast_command(result, TRUE)
         IN  /\ elapsed' = elapsed + d
             /\ show_output' = IF r.raised THEN show_output ELSE PyS(r.out)
             /\ inflight' = "none"
             /\ IF InfoComplete(info)
                THEN /\ net' = <<info.public_ip, info.ssh_port>>
                     /\ pc' = "done"
                ELSE /\ pc' = "ready_sleep"
                     /\ UNCHANGED net
    /\ UNCHANGED <<entry, lookupVars, moshVars, requests, searchVars, user_choice, createVars, uriVars,
                   attach, conn, timeout, exc, exitStatus, cleanupVars>>

\* await asyncio.sleep(poll_interval)
ReadySleep ==
    /\ pc = "ready_sleep"
    /\ pc' = "ready_check"
    /\ elapsed' = elapsed + PollInterval
    /\ UNCHANGED <<entry, lookupVars, moshVars, inflight, requests, searchVars, user_choice, createVars,
                   uriVars, attach, conn, timeout, show_output, net, exc, exitStatus,
                   cleanupVars>>

\* line 381: sys.exit(0)
Finish ==
    /\ pc = "done"
    /\ Exit(0)
    /\ UNCHANGED <<entry, lookupVars, moshVars, requests, searchVars, user_choice, createVars, uriVars,
                   attach, conn, timeout, readyVars, exc, cleanupVars>>

(***************************************************************************)
(* main_async, lines 373-378: the handler of the provisioning block.       *)
(***************************************************************************)
\* faulty variant: the handler's test inverted
HandlerCleansInverted(id) == ~Truthy(id)

\* line 376: if instance_id
HandlerCleans(id) == Truthy(id)

ExceptHandler ==
    /\ pc = "handler"
    /\ IF HandlerCleans(instance_id)
       THEN /\ pc' = "cleanup_enter"
            /\ cleanupArg' = instance_id
            /\ UNCHANGED <<inflight, exitStatus>>
       ELSE /\ Exit(1)
            /\ UNCHANGED cleanupArg
    /\ UNCHANGED <<entry, lookupVars, moshVars, requests, searchVars, user_choice, createVars, uriVars,
                   attach, conn, timeout, readyVars, exc, destroyRes, report>>

(***************************************************************************)
(* utils.cleanup_instance                                                  *)
(***************************************************************************)
\* faulty variant: the sentinel is not tested
CleanupGuardNoSentinel(id) == Truthy(id)

\* line 71: if instance_id and instance_id != "null"
CleanupGuard(id) == Truthy(id) /\ ~PyEqStr(id, "null")

\* faulty variant: "not found" is not looked for
DestroyReportNoNotFound(result) ==
    IF result.rc = 0 THEN "terminated" ELSE "warning"

\* lines 83-93: what is printed for the result of the destroy command
DestroyReport(result) ==
    IF result.rc = 0 THEN "terminated"
    ELSE IF Contains(result.stderr, "not found") THEN "already_destroyed"
    ELSE "warning"

DestroyCall ==
    /\ pc = "cleanup_enter"
    /\ CleanupGuard(cleanupArg)
    /\ pc' = "destroy_wait"
    /\ inflight' = "destroy"
    /\ requests' = Append(requests, Request("destroy", PyStr(cleanupArg)))
    /\ UNCHANGED <<entry, lookupVars, moshVars, searchVars, user_choice, createVars, uriVars, attach,
                   conn, timeout, readyVars, exc, exitStatus, cleanupVars>>

\* line 95: nothing to destroy
CleanupSkip ==
    /\ pc = "cleanup_enter"
    /\ ~CleanupGuard(cleanupArg)
    /\ pc' = "cleanup_return"
    /\ report' = "no_cleanup_needed"
    /\ UNCHANGED <<entry, lookupVars, moshVars, inflight, requests, searchVars, user_choice, createVars,
                   uriVars, attach, conn, timeout, readyVars, exc, exitStatus,
                   cleanupArg, destroyRes>>

\* subprocess.run returns, or raises OSError: cleanup_instance has no try
\* block, so the exception leaves it; in main_async it leaves the handler
\* too and ends the process with a traceback (status 1)
DestroyReturn ==
    /\ pc = "destroy_wait"
    /\ \E result \in DestroyResults :
         /\ destroyRes' = result
         /\ IF ~result.started
            THEN /\ report' = "raised"
                 /\ IF entry = "launch"
                    THEN Exit(1)
                    ELSE /\ pc' = "raised"
                         /\ inflight' = "none"
                         /\ UNCHANGED exitStatus
            ELSE /\ report' = DestroyReport(result)
                 /\ pc' = "cleanup_return"
                 /\ inflight' = "none"
                 /\ UNCHANGED exitStatus
    /\ UNCHANGED <<entry, lookupVars, moshVars, requests, searchVars, user_choice, createVars, uriVars,
                   attach, conn, timeout, readyVars, exc, cleanupArg>>

\* cleanup_instance returns: to line 378, sys.exit(1), or to its caller
CleanupReturn ==
    /\ pc = "cleanup_return"
    /\ IF entry = "launch"
       THEN Exit(1)
       ELSE /\ pc' = "returned"
            /\ UNCHANGED <<inflight, exitStatus>>
    /\ UNCHANGED <<entry, lookupVars, moshVars, requests, searchVars, user_choice, createVars, uriVars,
                   attach, conn, timeout, readyVars, exc, cleanupVars>>

(***************************************************************************)
(* The operator's interrupt.  KeyboardInterrupt and the CancelledError     *)
(* asyncio.run turns it into are no Exception: `except Exception` does not *)
(* catch them, in main_async or in run_vast_command, and the process ends  *)
(* (status 130) wherever it was waiting.                                   *)
(***************************************************************************)
WaitPoints ==
    {"search_wait", "prompt", "create_wait", "ssh_url_wait", "uri_sleep",
     "attach_wait", "show_wait", "ready_sleep", "destroy_wait"}

Interrupt ==
    /\ entry = "launch"
    /\ pc \in WaitPoints
    /\ Exit(130)
    /\ exc' = "KeyboardInterrupt"
    /\ UNCHANGED <<entry, lookupVars, moshVars, requests, searchVars, user_choice, createVars, uriVars,
                   attach, conn, timeout, readyVars, cleanupVars>>

(***************************************************************************)
(* connect_mosh.main: look the instance up, start mosh-server over ssh,    *)
(* read the session key, start mosh-client.                                *)
(***************************************************************************)
LookupCall ==
    /\ entry = "connect"
    /\ pc = "lookup_call"
    /\ pc' = "lookup_wait"
    /\ inflight' = "show"
    /\ requests' = Append(requests, Request("show", PyStr(instance_id)))
    /\ UNCHANGED <<entry, lookupVars, moshVars, searchVars, user_choice, createVars,
                   uriVars, attach, conn, timeout, readyVars, exc, exitStatus,
                   cleanupVars>>

\* lines 34-57: how the first try block ends and which locals it has bound.
\* end is "exit" for sys.exit(1), "caught" for an exception the handler at
\* line 56 printed, "ok" when the block ran to its end.
Lookup(result) ==
    LET r     == run_vast_command(result, TRUE)
        doc   == JsonLoads(r.out)
        ip    == DictGet(doc, "public_ipaddr")
        ports == DictGet(doc, "ports")
        udp   == DictGet(ports, UdpKey)
        tcp   == DictGet(ports, "22/tcp")
        mosh  == DictGet(udp.items[1], "HostPort")
        ssh   == DictGet(tcp.items[1], "HostPort")
        End(how, why, a, b, c) ==
            [end |-> how, why |-> why, public_ip |-> a, mosh_ext_port |-> b,
             ssh_ext_port |-> c]
    IN  IF r.raised THEN End("caught", r.exc, Unbound, Unbound, Unbound)
        ELSE IF doc.t = "invalid"
        THEN End("caught", "JSONDecodeError", Unbound, Unbound, Unbound)
        ELSE IF ~JTruthy(doc) THEN End("exit", "NoInstance", Unbound, Unbound, Unbound)
        ELSE IF doc.t # "dict"
        THEN End("caught", "AttributeError", Unbound, Unbound, Unbound)
        ELSE IF ports.t # "dict" THEN End("caught", "AttributeError", ip, Unbound, Unbound)
        ELSE IF udp.t # "list" THEN End("caught", "TypeError", ip, Unbound, Unbound)
        ELSE IF Len(udp.items) = 0 THEN End("caught", "IndexError", ip, Unbound, Unbound)
        ELSE IF tcp.t # "list" THEN End("caught", "TypeError", ip, mosh, Unbound)
        ELSE IF Len(tcp.items) = 0 THEN End("caught", "IndexError", ip, mosh, Unbound)
        ELSE IF ~Truthy(ip) \/ ~JTruthy(ports) \/ ~Truthy(ssh)
        THEN End("exit", "MissingComponents", ip, mosh, ssh)
        ELSE End("ok", "", ip, mosh, ssh)

LookupReturn ==
    /\ pc = "lookup_wait"
    /\ \E result \in ConnectResults :
         LET l == Lookup(result)
             r == run_vast_command(result, TRUE)
         IN  /\ show_output' = IF r.raised THEN show_output ELSE PyS(r.out)
             /\ public_ip' = l.public_ip
             /\ mosh_ext_port' = l.mosh_ext_port
             /\ ssh_ext_port' = l.ssh_ext_port
             /\ exc' = l.why
             /\ IF l.end = "exit"
                THEN Exit(1)
                ELSE /\ pc' = "ssh_cmd"
                     /\ inflight' = "none"
                     /\ UNCHANGED exitStatus
    /\ UNCHANGED <<entry, requests, moshVars, searchVars, user_choice, createVars,
                   uriVars, attach, conn, timeout, elapsed, net, cleanupVars>>

\* lines 60-68 read ssh_ext_port and public_ip
SshCmdBound == ssh_ext_port # Unbound /\ public_ip # Unbound

\* lines 59-68 after the handler at line 56 let the run go on: a local that
\* was never bound is read, and the UnboundLocalError ends the process
SshCmdUnbound ==
    /\ pc = "ssh_cmd"
    /\ ~SshCmdBound
    /\ Exit(1)
    /\ exc' = "UnboundLocalError"
    /\ UNCHANGED <<entry, lookupVars, moshVars, requests, searchVars, user_choice,
                   createVars, uriVars, attach, conn, timeout, readyVars, cleanupVars>>

\* line 73: run_command(ssh_cmd)
SshCall ==
    /\ pc = "ssh_cmd"
    /\ SshCmdBound
    /\ pc' = "ssh_wait"
    /\ inflight' = "ssh"
    /\ requests' = Append(requests,
                          Request("ssh", PyStr(ssh_ext_port) \o " root@" \o PyStr(public_ip)))
    /\ UNCHANGED <<entry, lookupVars, moshVars, searchVars, user_choice, createVars,
                   uriVars, attach, conn, timeout, readyVars, exc, exitStatus,
                   cleanupVars>>

\* line 75: ssh_result.split(" ")[-1], what follows the last blank
LastToken(s) ==
    LET Blanks == {i \in 1..Len(s) : SubSeq(s, i, i) = " "}
    IN  IF Blanks = {} THEN s
        ELSE SubSeq(s, (CHOOSE i \in Blanks : \A j \in Blanks : j <= i) + 1, Len(s))

\* faulty variant: any key will do
KeyMissingNever(key) == FALSE

\* line 78: if not mosh_key
KeyMissing(key) == ~Truthy(key)

\* lines 72-84
SshReturn ==
    /\ pc = "ssh_wait"
    /\ \E result \in SshResults :
         LET r   == run_command(result, TRUE)
             key == PyS(LastToken(r.out))
         IN  IF r.raised
             THEN /\ Exit(1)
                  /\ exc' = r.exc
                  /\ UNCHANGED moshVars
             ELSE /\ ssh_result' = PyS(r.out)
                  /\ mosh_key' = key
                  /\ IF KeyMissing(key)
                     THEN /\ Exit(1)
                          /\ exc' = "NoMoshKey"
                     ELSE /\ pc' = "mosh_call"
                          /\ inflight' = "none"
                          /\ UNCHANGED <<exc, exitStatus>>
    /\ UNCHANGED <<entry, lookupVars, requests, searchVars, user_choice, createVars,
                   uriVars, attach, conn, timeout, readyVars, cleanupVars>>

\* line 97: subprocess.run(mosh_client_cmd)
MoshCall ==
    /\ pc = "mosh_call"
    /\ pc' = "mosh_wait"
    /\ inflight' = "mosh-client"
    /\ requests' = Append(requests,
                          Request("mosh-client", PyStr(public_ip) \o " " \o PyStr(mosh_ext_port)))
    /\ UNCHANGED <<entry, lookupVars, moshVars, searchVars, user_choice, createVars,
                   uriVars, attach, conn, timeout, readyVars, exc, exitStatus,
                   cleanupVars>>

\* mosh-client ends, whatever its status, and main returns; when it cannot
\* be started the OSError ends the process
MoshReturn ==
    /\ pc = "mosh_wait"
    /\ \E result \in MoshResults :
         IF result.started
         THEN Exit(0) /\ UNCHANGED exc
         ELSE Exit(1) /\ exc' = "MoshOSError"
    /\ UNCHANGED <<entry, lookupVars, moshVars, requests, searchVars, user_choice,
                   createVars, uriVars, attach, conn, timeout, readyVars, cleanupVars>>

\* the operator's interrupt while the connector waits for a command
ConnectInterrupt ==
    /\ entry = "connect"
    /\ pc \in {"lookup_wait", "ssh_wait", "mosh_wait"}
    /\ Exit(130)
    /\ exc' = "KeyboardInterrupt"
    /\ UNCHANGED <<entry, lookupVars, moshVars, requests, searchVars, user_choice,
                   createVars, uriVars, attach, conn, timeout, readyVars, cleanupVars>>

(***************************************************************************)
(* The specification.                                                      *)
(***************************************************************************)
Next ==
    \/ SearchCall
    \/ SearchReturn
    \/ Confirm
    \/ ConfirmEOF
    \/ CreateCall
    \/ CreateReturn
    \/ SshUrlCall
    \/ SshUrlReturn
    \/ UriSleep
    \/ KeyFileAbsent
    \/ KeyFileUnreadable
    \/ AttachCall
    \/ AttachReturn
    \/ ParseUri
    \/ ShowCall
    \/ ReadyTimeout
    \/ ShowReturn
    \/ ReadySleep
    \/ Finish
    \/ ExceptHandler
    \/ DestroyCall
    \/ CleanupSkip
    \/ DestroyReturn
    \/ CleanupReturn
    \/ Interrupt
    \/ LookupCall
    \/ LookupReturn
    \/ SshCmdUnbound
    \/ SshCall
    \/ SshReturn
    \/ MoshCall
    \/ MoshReturn
    \/ ConnectInterrupt

Spec == Init /\ [][Next]_vars

\* get_instance_info_async, lines 43-69: the steps of the readiness poll
ReadyPoll == ShowCall \/ ShowReturn \/ ReadySleep \/ ReadyTimeout

\* a show-instance command that was started returns, a sleep that was begun
\* ends, and the loop condition is then evaluated
FairSpec == Spec /\ WF_vars(ReadyPoll)

(***************************************************************************)
(* Properties.                                                             *)
(***************************************************************************)
Count(cmd) == Cardinality(Issued(cmd))

\* an identifier the workflow goes on with: a non-empty string other than "null"
UsableId(id) == id.t = "str" /\ id.s \notin {"", "null"}

\* the failures of the provisioning block that come after the create step
LateFailures == {"UriTimeout", "UriParse", "TimeoutError", "KeyFileError", "AttachOSError"}

\* C1: a launch run that got an instance id from the create response and then
\* ended on a failure raised in the provisioning block has started exactly one
\* destroy command, for that id, and exits with status 1.
C1_CleanupAfterFailure ==
    (entry = "launch" /\ pc = "exited" /\ UsableId(instance_id) /\ exc \in LateFailures)
        => /\ exitStatus = 1
           /\ Count("destroy") = 1
           /\ \A i \in Issued("destroy") : requests[i].arg = instance_id.s

\* the failure scenario of the spec: id 789, six empty polls, one destroy, exit 1
C1_Witness ==
    /\ pc = "exited"
    /\ exitStatus = 1
    /\ exc = "UriTimeout"
    /\ instance_id = PyS("789")
    /\ Count("ssh-url") = 6
    /\ Count("destroy") = 1
    /\ requests[Len(requests)] = Request("destroy", "789")

\* the create response names no instance: "null", empty, JSON null or no key
NoIdInResponse ==
    /\ create_data.t = "dict"
    /\ DictGet(create_data, "new_contract") \in {PyNone, PyS(""), PyS("null")}

\* C2: after a create response whose identifier is "null", empty or missing,
\* no connection-URI query, attach-key request or show-instance query is made.
C2_NoIdStopsTheRun ==
    NoIdInResponse => Count("ssh-url") = 0 /\ Count("attach") = 0 /\ Count("show") = 0

\* the create step failed: the command failed, its output was no JSON object,
\* or the response names no instance
CreateStepFailed ==
    /\ Count("create") = 1
    /\ create_data.t # "dict" \/ NoIdInResponse

\* C3: a launch run whose create step failed exits with a non-zero status and
\* has started no destroy command.
C3_EarlyFailureNoCleanup ==
    (entry = "launch" /\ pc = "exited" /\ CreateStepFailed)
        => exitStatus # 0 /\ Count("destroy") = 0

\* C4: at most 6 ssh-url queries are made; a failed attempt alone never ends
\* the run (the only failure the poll raises is the timeout, and the errors
\* of a command never reach the handler once the poll has begun); the timeout
\* is raised exactly when 6 attempts have returned and none gave a URI.
C4_UriPoll ==
    /\ Count("ssh-url") <= 6
    /\ Count("ssh-url") > 0 => exc \notin {"OSError", "CalledProcessError"}
    /\ exc = "UriTimeout" => Count("ssh-url") = 6 /\ ~Truthy(ssh_uri)
    /\ (Count("ssh-url") = 6 /\ pc # "ssh_url_wait" /\ ~Truthy(ssh_uri)
          /\ exc # "KeyboardInterrupt")
        => exc = "UriTimeout"
    /\ (pc \in {"key_check", "attach_wait", "parse", "ready_check", "done"})
        => Truthy(ssh_uri)

\* the sixth attempt has failed after five delays, and the timeout is raised
C4_Witness ==
    /\ pc = "handler"
    /\ exc = "UriTimeout"
    /\ attempt = 6
    /\ sleeps = 5
    /\ Count("ssh-url") = 6

\* C5: whatever becomes of the key attachment, it never is the failure that
\* ends the provisioning block.
C5_AttachNeverFatal ==
    attach \in {"absent", "unreadable", "ok", "warning", "oserror"}
        => exc \notin {"KeyFileError", "AttachOSError"}

\* C6: cleanup_instance called with None, "" or "null" starts no destroy
\* command and returns normally.
C6_AbsentIdNoDestroy ==
    cleanupArg \in {PyNone, PyS(""), PyS("null")}
        => /\ Count("destroy") = 0
           /\ pc \notin {"destroy_wait", "raised"}
           /\ report \in {"none", "no_cleanup_needed"}
           /\ (entry = "cleanup" /\ pc # "cleanup_enter")
                => pc \in {"cleanup_return", "returned"} /\ report = "no_cleanup_needed"

\* cleanup_instance("null") has returned to its caller
C6_Witness ==
    /\ entry = "cleanup"
    /\ pc = "returned"
    /\ cleanupArg = PyS("null")
    /\ report = "no_cleanup_needed"
    /\ requests = <<>>

\* C7: cleanup_instance never raises.
C7_CleanupNeverRaises == pc # "raised" /\ report # "raised"

\* C8: cleanup_instance called with a valid id starts exactly one destroy
\* command, for that id; it reports success when the command exits 0 or its
\* error text contains "not found", and a warning for any other exit.
C8_DestroyReport ==
    /\ (UsableId(cleanupArg) /\ pc # "cleanup_enter")
        => /\ Count("destroy") = 1
           /\ \A i \in Issued("destroy") : requests[i].arg = cleanupArg.s
    /\ destroyRes.started
        => /\ (destroyRes.rc = 0) <=> (report = "terminated")
           /\ (destroyRes.rc # 0 /\ Contains(destroyRes.stderr, "not found"))
                <=> (report = "already_destroyed")
           /\ (destroyRes.rc # 0 /\ ~Contains(destroyRes.stderr, "not found"))
                <=> (report = "warning")

\* the destroy command said "not found" and cleanup_instance reported success
C8_Witness ==
    /\ entry = "cleanup"
    /\ pc = "returned"
    /\ cleanupArg = PyS("456")
    /\ destroyRes = Res(1, "", "instance 456 not found\n")
    /\ report = "already_destroyed"

\* the number of offers found
NumOffers == IF offer_details.t = "list" THEN Len(offer_details.items) ELSE 0

C10_CancelIsClean ==
    /\ user_choice = PyS("n")
        => pc = "exited" /\ exitStatus = 0 /\ Count("create") = 0 /\ Count("destroy") = 0
    /\ Count("create") > 0 => user_choice = PyS("y")

\* the operator answered n
C10_Witness ==
    /\ pc = "exited"
    /\ user_choice = PyS("n")
    /\ exitStatus = 0
    /\ Count("search") = 1
    /\ Len(requests) = 1

\* the search command returned and gave nothing to present: it failed, or
\* its output is no list, or an empty list, or a list whose first record
\* has no id
SearchGaveNoOffer ==
    /\ Count("search") > 0
    /\ pc # "search_wait"
    /\ \/ offer_output = PyNone
       \/ /\ offer_output # PyNone
          /\ LET doc == JsonLoads(offer_output.s)
             IN  \/ doc.t # "list"
                 \/ doc.t = "list" /\ Len(doc.items) = 0
                 \/ doc.t = "list" /\ Len(doc.items) > 0
                       /\ ~Truthy(DictGet(doc.items[1], "id"))

\* C11: when the search gives no offer the run has ended with a non-zero
\* status, the operator was never asked, and no create and no destroy
\* request was made; the search is never repeated.
C11_NoOfferEndsTheRun ==
    /\ Count("search") <= 1
    /\ SearchGaveNoOffer
        => /\ pc = "exited"
           /\ exitStatus > 0
           /\ user_choice = PyNone
           /\ Len(requests) = 1

\* the first record of the search result has no id
C11_Witness ==
    /\ offer_output = PyS("[{\"gpu_name\": \"RTX_3060\"}]")
    /\ pc = "exited"
    /\ exitStatus = 1
    /\ exc = "NoOfferId"

\* get_instance_info_async is running
InReadyPoll == pc \in {"ready_check", "show_wait", "ready_sleep"}

\* the pair a show-instance output holds, read field by field
ShownAddress(text) ==
    LET doc == JsonLoads(text) IN DictGet(doc, "public_ipaddr")

ShownSshPort(text) ==
    LET tcp == DictGet(DictGet(JsonLoads(text), "ports"), "22/tcp")
    IN  IF tcp.t = "list" /\ Len(tcp.items) > 0
        THEN DictGet(tcp.items[1], "HostPort") ELSE PyNone

C12_PollStates ==
    /\ pc = "show_wait" => elapsed < timeout
    /\ (entry = "launch" /\ timeout <= 0) => Count("show") = 0
    /\ (entry = "launch" /\ Count("show") > 0)
        => (Count("show") - 1) * PollInterval < timeout
    /\ pc = "ready_sleep" => net = <<PyNone, PyNone>>
    /\ net # <<PyNone, PyNone>>
        => /\ pc \in {"done", "exited"}
           /\ show_output # PyNone
           /\ net = <<ShownAddress(show_output.s), ShownSshPort(show_output.s)>>
           /\ Truthy(net[1]) /\ Truthy(net[2])
    /\ exc = "TimeoutError" => elapsed >= timeout /\ net = <<PyNone, PyNone>>

\* an attempt that gave no complete pair is followed by one sleep of the
\* poll interval, and the sleep by the loop condition
C12_PollSteps ==
    /\ pc = "show_wait" /\ pc' \notin {"show_wait", "exited"}
        => IF net' = <<PyNone, PyNone>> THEN pc' = "ready_sleep" ELSE pc' = "done"
    /\ pc = "ready_sleep" /\ pc' \notin {"ready_sleep", "exited"}
        => pc' = "ready_check" /\ elapsed' = elapsed + PollInterval
    /\ pc = "ready_check" /\ pc' \notin {"ready_check", "exited"}
        => IF elapsed < timeout THEN pc' = "show_wait"
           ELSE pc' = "handler" /\ exc' = "TimeoutError"

\* C12: the readiness poll ends; it returns a pair only when the address
\* and the SSH host port of one show-instance output are both non-empty;
\* an attempt that failed or was incomplete sleeps one interval and the
\* loop condition is evaluated again; no attempt starts once the elapsed
\* time has reached the timeout, and the timeout failure is raised then
\* (with no attempt at all when the timeout is zero or negative).
C12_ReadinessPoll ==
    /\ []C12_PollStates
    /\ [][C12_PollSteps]_vars
    /\ InReadyPoll ~> ~InReadyPoll

\* the poll gave up after two incomplete attempts
C12_Witness ==
    /\ exc = "TimeoutError"
    /\ Count("show") = 2
    /\ timeout = 20
    /\ elapsed >= 2 * PollInterval

\* C13: a run that made a create request and ended with status 0 made no
\* destroy request, and had obtained a connection URI, matched it, and
\* received an address and an SSH port from the readiness poll.
C13_SuccessKeepsTheInstance ==
    (pc = "exited" /\ exitStatus = 0 /\ Count("create") > 0)
        => /\ Count("destroy") = 0
           /\ Truthy(ssh_uri)
           /\ conn.ok
           /\ Count("show") > 0
           /\ Truthy(net[1]) /\ Truthy(net[2])

\* a successful run without a key file, ready at the second attempt
C13_Witness ==
    /\ pc = "exited"
    /\ exitStatus = 0
    /\ Count("create") = 1
    /\ attach = "absent"
    /\ Count("show") = 2
    /\ conn.ok

\* the key attachment step is over and did not raise
AttachStepDone == attach \in {"absent", "ok", "warning"}

\* C15 as stated: an attach-key request is made only after the URI has
\* matched, and never in a run whose URI does not match.
C15_AttachAfterParse ==
    /\ Count("attach") > 0 => conn.ok
    /\ exc = "UriParse" => Count("attach") = 0

\* C15: the steps run in the order create, URI poll, key attachment, URI
\* parse, readiness poll: an attach-key request is made only after a
\* non-empty URI was obtained, the URI is matched only after the key
\* attachment step is over, and a show-instance request is made only after
\* the URI has matched.
C15_AttachBeforeParse ==
    /\ Count("attach") > 0 => Truthy(ssh_uri) /\ instance_id # PyNone
    /\ conn.ok => AttachStepDone
    /\ exc = "UriParse" => AttachStepDone
    /\ (entry = "launch" /\ Count("show") > 0) => conn.ok
    /\ \A i \in Issued("create"), j \in Issued("ssh-url") : i < j
    /\ \A i \in Issued("ssh-url"), j \in Issued("attach") : i < j
    /\ \A i \in Issued("attach"), j \in Issued("show") : i < j

\* the key was attached and the URI then failed to match
C15_Witness ==
    /\ exc = "UriParse"
    /\ attach = "ok"
    /\ Count("attach") = 1
    /\ ssh_uri = PyS("ssh://bad-uri")

\* C16: a run that was interrupted after it had obtained an instance id
\* has made a destroy request for that id when the process has ended.
C16_InterruptCleansUp ==
    (pc = "exited" /\ exc = "KeyboardInterrupt" /\ UsableId(instance_id))
        => \E i \in Issued("destroy") : requests[i].arg = instance_id.s

\* the positions at which ch stands in s
Places(s, ch) == {i \in 1..Len(s) : SubSeq(s, i, i) = ch}

\* every part of s that has the shape ssh://user@host:port, as the places
\* of its start p, its '@' a, its ':' c and its end e: a user without '@',
\* a host without ':', and digits for the port, none of them empty
Shapes(s) ==
    LET Starts == {i \in 1..Len(s) - 5 : SubSeq(s, i, i + 5) = "ssh://"}
        Ats    == Places(s, "@")
        Colons == Places(s, ":")
        Nums   == {i \in 1..Len(s) : SubSeq(s, i, i) \in Digits}
    IN  {x \in [p : Starts, a : Ats, c : Colons, e : Nums] :
            /\ x.p + 6 < x.a /\ x.a + 1 < x.c /\ x.c < x.e
            /\ Ats \cap (x.p + 6 .. x.a - 1) = {}
            /\ Colons \cap (x.a + 1 .. x.c - 1) = {}
            /\ (x.c + 1 .. x.e) \subseteq Nums}

\* the whole of s has the shape
WholeShape(s) == \E x \in Shapes(s) : x.p = 1 /\ x.e = Len(s)

\* the URI has been matched against the pattern
UriParsed == conn.ok \/ exc = "UriParse"

\* C17 as stated: the URI is accepted exactly when the whole string has
\* the shape.
C17_WholeStringOnly ==
    UriParsed /\ Truthy(ssh_uri) => (conn.ok <=> WholeShape(ssh_uri.s))

\* C17: the URI is accepted exactly when some part of it has the shape
\* ssh://user@host:port; user, host and port are those of the leftmost such
\* part, with the longest run of digits for the port; ssh://root@203.0.113.5:44123
\* yields (root, 203.0.113.5, 44123); a URI with no such part is a parse
\* failure, with no target and no readiness poll.
C17_UriPattern ==
    /\ conn.ok
        => /\ Truthy(ssh_uri)
           /\ LET s     == ssh_uri.s
                  Found == Shapes(s)
              IN  \E x \in Found :
                     /\ conn.user = SubSeq(s, x.p + 6, x.a - 1)
                     /\ conn.host = SubSeq(s, x.a + 1, x.c - 1)
                     /\ conn.port = SubSeq(s, x.c + 1, x.e)
                     /\ \A y \in Found : x.p <= y.p /\ (y.p = x.p => y.e <= x.e)
    /\ exc = "UriParse"
        => /\ Truthy(ssh_uri)
           /\ Shapes(ssh_uri.s) = {}
           /\ conn = NoMatch
           /\ Count("show") = 0
    /\ pc \in {"ready_check", "show_wait", "ready_sleep", "done"} => conn.ok
    /\ (UriParsed /\ ssh_uri = PyS("ssh://root@203.0.113.5:44123"))
        => conn = [ok |-> TRUE, user |-> "root", host |-> "203.0.113.5", port |-> "44123"]
    /\ (UriParsed /\ ssh_uri = PyS("ssh://bad-uri")) => ~conn.ok

\* a URI with text around the pattern was accepted
C17_Witness ==
    /\ ssh_uri = PyS("xssh://a@b:1z")
    /\ conn = [ok |-> TRUE, user |-> "a", host |-> "b", port |-> "1"]
    /\ pc = "show_wait"

\* a command in flight is the one started last
C18_InFlightIsLast ==
    inflight # "none"
        => Len(requests) > 0 /\ requests[Len(requests)].cmd = inflight

\* a command is started only when none is in flight
C18_StartsWhenIdle ==
    Len(requests') > Len(requests)
        => /\ inflight = "none"
           /\ Len(requests') = Len(requests) + 1
           /\ inflight' = requests'[Len(requests')].cmd

\* C18: at most one external command is in flight: the workflow starts a
\* command (search, create, ssh-url, attach, show instance, destroy) only
\* when every command it started before has returned.
C18_OneAtATime == []C18_InFlightIsLast /\ [][C18_StartsWhenIdle]_vars

\* a show-instance command is running; the ssh-url poll needed two
\* attempts and the attach command has returned
C18_Witness ==
    /\ inflight = "show"
    /\ Count("ssh-url") = 2
    /\ Count("attach") = 1
    /\ attach = "warning"

\* C20: a launch run makes at most one create and at most one destroy
\* request, and a destroy request only after the create command has
\* returned and only for the identifier its response names.
C20_OneCreateOneDestroy ==
    entry = "launch"
        => /\ Count("create") <= 1
           /\ Count("destroy") <= 1
           /\ \A d \in Issued("destroy") :
                 /\ \E k \in Issued("create") : k < d
                 /\ create_data.t = "dict"
                 /\ ~NoIdInResponse
                 /\ requests[d].arg = PyStr(DictGet(create_data, "new_contract"))

\* the connector's lookup has returned
LookedUp == entry = "connect" /\ pc \notin {"lookup_call", "lookup_wait"}

\* the first HostPort of a port mapping, None when there is none
FirstHostPort(ports, key) ==
    IF ports.t # "dict" THEN PyNone
    ELSE LET m == DictGet(ports, key)
         IN  IF m.t = "list" /\ Len(m.items) > 0
             THEN DictGet(m.items[1], "HostPort") ELSE PyNone

\* the lookup failed (command error, output that does not parse, empty
\* record) or the record lacks the address, the port mapping, the SSH
\* external port or the mapped UDP port
LookupUnusable ==
    /\ LookedUp
    /\ exc # "KeyboardInterrupt"
    /\ \/ show_output = PyNone
       \/ /\ show_output # PyNone
          /\ LET doc   == JsonLoads(show_output.s)
                 ports == IF doc.t = "dict" THEN DictGet(doc, "ports") ELSE PyNone
             IN  \/ doc.t # "dict"
                 \/ ~JTruthy(doc)
                 \/ ~Truthy(DictGet(doc, "public_ipaddr"))
                 \/ ports.t # "dict"
                 \/ ~Truthy(FirstHostPort(ports, "22/tcp"))
                 \/ ~Truthy(FirstHostPort(ports, UdpKey))

\* C14: when the connector's lookup is unusable, the connector ends through
\* its own failure exit with status 1 and has started neither the ssh
\* command nor mosh-client.
C14_LookupFailureExits ==
    LookupUnusable
        => /\ Count("ssh") = 0
           /\ Count("mosh-client") = 0
           /\ pc = "exited" => exitStatus = 1 /\ exc # "UnboundLocalError"

\* the ssh command was run and failed
SshFailed ==
    /\ Count("ssh") = 1
    /\ pc # "ssh_wait"
    /\ ssh_result = Unbound
    /\ exc # "KeyboardInterrupt"

\* C19: mosh-client is started only after the ssh command succeeded and
\* the last word of its output, the session key, is not empty; when the
\* ssh command fails or the key is empty the connector has exited with
\* status 1 and has not started mosh-client.
C19_MoshAfterKey ==
    /\ Count("mosh-client") <= 1
    /\ Count("mosh-client") > 0
        => /\ \A i \in Issued("ssh"), j \in Issued("mosh-client") : i < j
           /\ ssh_result # Unbound
           /\ mosh_key # Unbound
           /\ mosh_key.s # ""
           /\ \E n \in 1..Len(ssh_result.s) :
                 /\ mosh_key.s = SubSeq(ssh_result.s, n, Len(ssh_result.s))
                 /\ n > 1 => SubSeq(ssh_result.s, n - 1, n - 1) = " "
    /\ (SshFailed \/ mosh_key = PyS(""))
        => pc = "exited" /\ exitStatus = 1 /\ Count("mosh-client") = 0

\* the key was read and mosh-client ran
C19_Witness ==
    /\ Count("mosh-client") = 1
    /\ mosh_key = PyS("kEy0123")
    /\ pc = "exited"
    /\ exitStatus = 0

\* the connection-URI poll at rest: the attempts, the queries and the delays
C21_PollStates ==
    /\ attempt = 0 => sleeps = 0 /\ Count("ssh-url") = 0
    /\ attempt > 0
        => /\ attempt <= 6
           /\ sleeps = attempt - 1
           /\ Count("ssh-url") = IF pc = "ssh_url_call" THEN attempt - 1 ELSE attempt
    /\ slept = 15 * sleeps
    /\ pc = "uri_sleep" => ~Truthy(ssh_uri) /\ attempt < 6
    /\ Truthy(ssh_uri)
        => /\ pc \notin {"ssh_url_call", "ssh_url_wait", "uri_sleep"}
           /\ attempt \in 1..6
           /\ Count("ssh-url") = attempt
           /\ sleeps = attempt - 1
    /\ exc = "UriTimeout" => Count("ssh-url") = 6 /\ sleeps = 5 /\ slept = 75

\* once a URI is there no query and no delay follows; an attempt without a
\* URI is followed by one delay, the sixth by the failure
C21_PollSteps ==
    /\ Truthy(ssh_uri)
        => /\ sleeps' = sleeps
           /\ ssh_uri' = ssh_uri
           /\ Count("ssh-url")' = Count("ssh-url")
    /\ (pc = "ssh_url_wait" /\ pc' \notin {"ssh_url_wait", "exited"} /\ ~Truthy(ssh_uri'))
        => IF attempt < 6 THEN pc' = "uri_sleep" ELSE pc' = "handler" /\ exc' = "UriTimeout"
    /\ (pc = "uri_sleep" /\ pc' \notin {"uri_sleep", "exited"})
        => /\ pc' = "ssh_url_call"
           /\ sleeps' = sleeps + 1
           /\ slept' = slept + 15
           /\ attempt' = attempt + 1

\* C21: the connection-URI poll stops at the first attempt that gives a
\* non-empty URI, with no query and no delay after it; after every attempt
\* without a URI but the sixth it sleeps 15 seconds once; a run whose first
\* success is attempt k has slept k-1 times, and a poll that failed six
\* times has slept 5 times.
C21_PollDelays == []C21_PollStates /\ [][C21_PollSteps]_vars

\* the third attempt gave the URI, after two delays
C21_Witness ==
    /\ pc = "key_check"
    /\ Truthy(ssh_uri)
    /\ attempt = 3
    /\ sleeps = 2
    /\ slept = 30
    /\ Count("ssh-url") = 3

====
